---- MODULE Spec2Model ----
(***************************************************************************)
(* Model of coals.store.Store (src/coals/store.py): an object store whose  *)
(* metadata lives in a Manager dict, whose payloads live in named          *)
(* SharedMemory segments and whose seal notifications go through a Manager *)
(* list guarded by a Manager Condition.                                    *)
(*                                                                         *)
(* Every process of Procs holds its own Store object onto the same Manager *)
(* proxies (the object is inherited by a forked child, as in               *)
(* test_subscribe_notification, which hands store.meta and the queue to a  *)
(* child).  meta, the queue and the segments are shared; _current_size is  *)
(* a plain attribute of the Store object and is therefore per process.     *)
(***************************************************************************)
EXTENDS Integers, Sequences, FiniteSets, TLC

\* ------------------------------------------------------------------ bounds
NumProcs == 2
MaxIds == 2
MaxSize == 2
Capacity == 3
MaxRef == 2
MaxQueue == 2
MaxEvict == 3
MaxCalls == 3
\* the number of distinct values of obj_id[:8] (16^8 in the program)
NamePrefixes == 8

Procs == 1..NumProcs
Ids == 1..MaxIds
Bytes == {0, 1}
Sizes == 0..MaxSize
Payloads == UNION {[1..n -> Bytes] : n \in Sizes}
NoId == 0

VARIABLES
  meta,      \* self.meta: the Manager dict, as its item list in insertion order
  shm,       \* the live SharedMemory segments: name -> bytes
  cur,       \* self._current_size of each process's Store object
  queue,     \* self._sealed_objects_queue
  now,       \* the last value time.time() returned
  used,      \* identifiers uuid4 has already produced
  held,      \* history: successful gets minus successful releases, per identifier
  gone,      \* history: the operation that removed the identifier's record
  sealedOnce,\* history: present identifiers on which a seal has succeeded
  written,   \* history: the payload put wrote, per present identifier
  last,      \* the last completed call: operation, caller, arguments, outcome
  pc,        \* per process: the statement of the handler it is about to run
  loc,       \* per process: the handler's local variables
  lock,      \* the owner of self._notification_condition's lock, 0 when free
  calls      \* the number of calls started so far

vars == <<meta, shm, cur, queue, now, used, held, gone, sealedOnce, written, last,
          pc, loc, lock, calls>>
storeVars == <<meta, shm, cur, queue, now, used, held, gone, sealedOnce, written>>
procVars == <<pc, loc, lock, calls>>

\* ------------------------------------------------- the Manager dict (meta)
Keys(m) == {m[i].key : i \in DOMAIN m}
Has(m, id) == id \in Keys(m)
Idx(m, id) == CHOOSE i \in DOMAIN m : m[i].key = id
MetaGet(m, id) == m[Idx(m, id)].md
MetaSet(m, id, md) ==
  IF Has(m, id) THEN [m EXCEPT ![Idx(m, id)].md = md]
  ELSE Append(m, [key |-> id, md |-> md])
MetaDel(m, id) == SelectSeq(m, LAMBDA e : e.key # id)

RECURSIVE SumSizes(_)
SumSizes(m) == IF m = <<>> THEN 0 ELSE Head(m).md.size + SumSizes(Tail(m))

\* --------------------------------------------------------------- segments
\* shm_name = f"coals_{obj_id[:8]}": the name keeps only a prefix of the
\* identifier, so distinct identifiers can map to one segment name.
ShmName(id) == id % NamePrefixes
Zeros(n) == [i \in 1..n |-> 0]
ShmPut(s, name, bytes) == [x \in DOMAIN s \cup {name} |-> IF x = name THEN bytes ELSE s[x]]
ShmDel(s, name) == [x \in DOMAIN s \ {name} |-> s[x]]

\* str(uuid.uuid4()): an identifier never produced before.  Identifiers are
\* opaque, so the model takes the unused ones in order.
FreshIds == {id \in Ids \ used : \A j \in Ids \ used : id <= j}

Call(op, p, id, arg, res, buf) ==
  [op |-> op, p |-> p, id |-> id, arg |-> arg, res |-> res, buf |-> buf]

NoMd == [shm_name |-> 0, size |-> 0, sealed |-> FALSE, refcount |-> 0, created_at |-> 0]
IdleLoc ==
  [op |-> "none", id |-> NoId, arg |-> 0, md |-> NoMd, data |-> <<>>,
   items |-> <<>>, freed |-> 0]

Init ==
  /\ pc = [p \in Procs |-> "idle"]
  /\ loc = [p \in Procs |-> IdleLoc]
  /\ lock = 0
  /\ calls = 0
  /\ meta = <<>>
  /\ shm = <<>>
  /\ cur = [p \in Procs |-> 0]
  /\ queue = <<>>
  /\ now = 0
  /\ used = {}
  /\ held = [i \in Ids |-> 0]
  /\ gone = [i \in Ids |-> "none"]
  /\ sealedOnce = {}
  /\ written = <<>>
  /\ last = Call("init", 1, NoId, 0, "ok", <<>>)

\* ------------------------------------------------ pieces of the handlers
CapacityExceeded_OffByOne(c, size) == c + size >= Capacity

\* create: "if self._current_size + size > self.capacity"
CapacityExceeded(c, size) == c + size > Capacity

\* create: the outcome of the capacity check and of SharedMemory(create=True,
\* size=size, name=shm_name), which rejects size 0 before it opens the name
CreateRes(c, size, id, s) ==
  IF CapacityExceeded(c, size) THEN "MemoryError"
  ELSE IF size <= 0 THEN "ValueError"
  ELSE IF ShmName(id) \in DOMAIN s THEN "FileExistsError"
  ELSE "ok"

\* create: the record stored for a new object
NewRecord(id, size, t) ==
  [shm_name |-> ShmName(id), size |-> size, sealed |-> FALSE, refcount |-> 1,
   created_at |-> t]

WriteBuf_DropsLastByte(content, size, data) ==
  [i \in 1..Len(content) |-> IF i < size THEN data[i] ELSE content[i]]

\* put: buf[:size] = data_bytes
WriteBuf(content, size, data) ==
  [i \in 1..Len(content) |-> IF i <= size THEN data[i] ELSE content[i]]

SealRecord_Forgets(md) == md

\* seal: md["sealed"] = True
SealRecord(md) == [md EXCEPT !.sealed = TRUE]

\* get: md["refcount"] += 1
BumpRecord(md) == [md EXCEPT !.refcount = @ + 1]

DropRecord_Unseals(md) == [md EXCEPT !.refcount = @ - 1, !.sealed = FALSE]
\* release: md["refcount"] -= 1
DropRecord(md) == [md EXCEPT !.refcount = @ - 1]

ReleasedToZero_Never(md) == FALSE
ReleasedToZero_Late(md) == md.refcount < 0

\* release: "if md["refcount"] <= 0"
ReleasedToZero(md) == md.refcount <= 0

\* delete, release: SharedMemory(name=...).unlink(), FileNotFoundError ignored
Unlink(s, name) == IF name \in DOMAIN s THEN ShmDel(s, name) ELSE s

\* evict: "if md["refcount"] == 1 and md["sealed"]"
Evictable(md) == md.refcount = 1 /\ md.sealed

\* evict: the scan of self.meta.items()
Candidates(m) == SelectSeq(m, LAMBDA e : Evictable(e.md))

SortNewestFirst(items) == [i \in 1..Len(items) |-> items[Len(items) + 1 - i]]

\* evict: evictable_objects.sort(key=created_at), a stable sort
RECURSIVE InsertByCreatedAt(_, _)
InsertByCreatedAt(sorted, e) ==
  IF sorted = <<>> THEN <<e>>
  ELSE IF e.md.created_at < Head(sorted).md.created_at THEN <<e>> \o sorted
  ELSE <<Head(sorted)>> \o InsertByCreatedAt(Tail(sorted), e)
RECURSIVE SortByCreatedAt(_)
SortByCreatedAt(items) ==
  IF items = <<>> THEN <<>>
  ELSE InsertByCreatedAt(SortByCreatedAt(SubSeq(items, 1, Len(items) - 1)),
                         items[Len(items)])

\* evict: the loop "if bytes_freed >= num_bytes: break; delete; bytes_freed += size";
\* the items it deletes, in order
RECURSIVE EvictLoop(_, _, _)
EvictLoop(items, num_bytes, bytes_freed) ==
  IF items = <<>> \/ bytes_freed >= num_bytes THEN <<>>
  ELSE <<Head(items)>> \o
       EvictLoop(Tail(items), num_bytes, bytes_freed + Head(items).md.size)

EvictVictims(m, num_bytes) == EvictLoop(SortByCreatedAt(Candidates(m)), num_bytes, 0)

RECURSIVE DeleteAllMeta(_, _)
DeleteAllMeta(m, victims) ==
  IF victims = <<>> THEN m ELSE DeleteAllMeta(MetaDel(m, Head(victims).key), Tail(victims))
RECURSIVE UnlinkAll(_, _)
UnlinkAll(s, victims) ==
  IF victims = <<>> THEN s ELSE UnlinkAll(Unlink(s, Head(victims).md.shm_name), Tail(victims))
Forget(w, ids) == [x \in DOMAIN w \ ids |-> w[x]]
KeysOf(items) == [i \in DOMAIN items |-> items[i].key]
Range(f) == {f[i] : i \in DOMAIN f}

\* ------------------------------------------------------- whole handlers
\* Store.create(size)
Create(p, size) ==
  \E id \in FreshIds, t \in {now, now + 1} :
    LET res == CreateRes(cur[p], size, id, shm) IN
    IF res = "ok"
    THEN /\ shm' = ShmPut(shm, ShmName(id), Zeros(size))
         /\ meta' = MetaSet(meta, id, NewRecord(id, size, t))
         /\ cur' = [cur EXCEPT ![p] = @ + size]
         /\ now' = t
         /\ used' = used \cup {id}
         /\ last' = Call("create", p, id, size, "ok", <<>>)
         /\ UNCHANGED <<queue, held, gone, sealedOnce, written>>
    ELSE /\ last' = Call("create", p, NoId, size, res, <<>>)
         /\ UNCHANGED <<meta, shm, cur, queue, now, used, held, gone, sealedOnce, written>>

\* Store.put(data_bytes): create, write, close, seal
Put(p, data) ==
  \E id \in FreshIds, t \in {now, now + 1} :
    LET size == Len(data)
        res == CreateRes(cur[p], size, id, shm) IN
    IF res = "ok"
    THEN /\ Len(queue) < MaxQueue
         /\ shm' = ShmPut(shm, ShmName(id), WriteBuf(Zeros(size), size, data))
         /\ meta' = MetaSet(meta, id, SealRecord(NewRecord(id, size, t)))
         /\ cur' = [cur EXCEPT ![p] = @ + size]
         /\ now' = t
         /\ used' = used \cup {id}
         /\ queue' = Append(queue, id)
         /\ sealedOnce' = sealedOnce \cup {id}
         /\ written' = ShmPut(written, id, data)
         /\ last' = Call("put", p, id, size, "ok", <<>>)
         /\ UNCHANGED <<held, gone>>
    ELSE /\ last' = Call("put", p, NoId, size, res, <<>>)
         /\ UNCHANGED <<meta, shm, cur, queue, now, used, held, gone, sealedOnce, written>>

SealFound_OncePerObject(p, id) ==
  /\ Len(queue) < MaxQueue
  /\ meta' = MetaSet(meta, id, SealRecord(MetaGet(meta, id)))
  /\ queue' = IF MetaGet(meta, id).sealed THEN queue ELSE Append(queue, id)
  /\ sealedOnce' = sealedOnce \cup {id}
  /\ last' = Call("seal", p, id, 0, "ok", <<>>)
  /\ UNCHANGED <<shm, cur, now, used, held, gone, written>>

\* seal, past the ObjectNotFound check: the write-back and the notification
SealFound(p, id) ==
  /\ Len(queue) < MaxQueue
  /\ meta' = MetaSet(meta, id, SealRecord(MetaGet(meta, id)))
  /\ queue' = Append(queue, id)
  /\ sealedOnce' = sealedOnce \cup {id}
  /\ last' = Call("seal", p, id, 0, "ok", <<>>)
  /\ UNCHANGED <<shm, cur, now, used, held, gone, written>>

Seal_NotifiesFirst(p, id) ==
  IF ~Has(meta, id)
  THEN /\ Len(queue) < MaxQueue
       /\ queue' = Append(queue, id)
       /\ last' = Call("seal", p, id, 0, "NotFound", <<>>)
       /\ UNCHANGED <<meta, shm, cur, now, used, held, gone, sealedOnce, written>>
  ELSE SealFound(p, id)

\* Store.seal(obj_id)
Seal(p, id) ==
  IF ~Has(meta, id)
  THEN /\ last' = Call("seal", p, id, 0, "NotFound", <<>>)
       /\ UNCHANGED <<meta, shm, cur, queue, now, used, held, gone, sealedOnce, written>>
  ELSE SealFound(p, id)

\* Store.get(obj_id)
Get(p, id) ==
  IF ~Has(meta, id)
  THEN /\ last' = Call("get", p, id, 0, "NotFound", <<>>)
       /\ UNCHANGED <<meta, shm, cur, queue, now, used, held, gone, sealedOnce, written>>
  ELSE LET md == MetaGet(meta, id) IN
    IF ~md.sealed
    THEN /\ last' = Call("get", p, id, 0, "NotSealed", <<>>)
         /\ UNCHANGED <<meta, shm, cur, queue, now, used, held, gone, sealedOnce, written>>
    ELSE IF md.shm_name \notin DOMAIN shm
    THEN /\ last' = Call("get", p, id, 0, "FileNotFoundError", <<>>)
         /\ UNCHANGED <<meta, shm, cur, queue, now, used, held, gone, sealedOnce, written>>
    ELSE /\ md.refcount < MaxRef
         /\ meta' = MetaSet(meta, id, BumpRecord(md))
         /\ held' = [held EXCEPT ![id] = @ + 1]
         /\ last' = Call("get", p, id, md.size, "ok", shm[md.shm_name])
         /\ UNCHANGED <<shm, cur, queue, now, used, gone, sealedOnce, written>>

\* Store.contains(obj_id)
Contains(p, id) ==
  /\ last' = Call("contains", p, id, 0, IF Has(meta, id) THEN "true" ELSE "false", <<>>)
  /\ UNCHANGED <<meta, shm, cur, queue, now, used, held, gone, sealedOnce, written>>

\* Store.info(obj_id)
Info(p, id) ==
  /\ last' = Call("info", p, id, 0, IF Has(meta, id) THEN "ok" ELSE "NotFound", <<>>)
  /\ UNCHANGED <<meta, shm, cur, queue, now, used, held, gone, sealedOnce, written>>

\* delete, past the ObjectNotFound check: unlink, counter, del self.meta[obj_id]
DeleteFound(p, id) ==
  LET md == MetaGet(meta, id) IN
  /\ shm' = Unlink(shm, md.shm_name)
  /\ cur' = [cur EXCEPT ![p] = @ - md.size]
  /\ meta' = MetaDel(meta, id)
  /\ gone' = [gone EXCEPT ![id] = "delete"]
  /\ sealedOnce' = sealedOnce \ {id}
  /\ written' = Forget(written, {id})
  /\ last' = Call("delete", p, id, 0, "ok", <<>>)
  /\ UNCHANGED <<queue, now, used, held>>

Delete_RespectsRefcount(p, id) ==
  IF ~Has(meta, id)
  THEN /\ last' = Call("delete", p, id, 0, "NotFound", <<>>)
       /\ UNCHANGED <<meta, shm, cur, queue, now, used, held, gone, sealedOnce, written>>
  ELSE IF MetaGet(meta, id).refcount > 1
  THEN /\ meta' = MetaSet(meta, id, DropRecord(MetaGet(meta, id)))
       /\ last' = Call("delete", p, id, 0, "ok", <<>>)
       /\ UNCHANGED <<shm, cur, queue, now, used, held, gone, sealedOnce, written>>
  ELSE DeleteFound(p, id)

\* Store.delete(obj_id)
Delete(p, id) ==
  IF ~Has(meta, id)
  THEN /\ last' = Call("delete", p, id, 0, "NotFound", <<>>)
       /\ UNCHANGED <<meta, shm, cur, queue, now, used, held, gone, sealedOnce, written>>
  ELSE DeleteFound(p, id)

\* Store.release(obj_id)
Release(p, id) ==
  IF ~Has(meta, id)
  THEN /\ last' = Call("release", p, id, 0, "NotFound", <<>>)
       /\ UNCHANGED <<meta, shm, cur, queue, now, used, held, gone, sealedOnce, written>>
  ELSE LET md == DropRecord(MetaGet(meta, id)) IN
       /\ IF ReleasedToZero(md)
          THEN /\ shm' = Unlink(shm, md.shm_name)
               /\ cur' = [cur EXCEPT ![p] = @ - md.size]
               /\ meta' = MetaDel(meta, id)
               /\ gone' = [gone EXCEPT ![id] = "release"]
               /\ sealedOnce' = sealedOnce \ {id}
               /\ written' = Forget(written, {id})
          ELSE /\ meta' = MetaSet(meta, id, md)
               /\ UNCHANGED <<shm, cur, gone, sealedOnce, written>>
       /\ held' = [held EXCEPT ![id] = @ - 1]
       /\ last' = Call("release", p, id, 0, "ok", <<>>)
       /\ UNCHANGED <<queue, now, used>>

\* Store.evict(num_bytes)
Evict(p, num_bytes) ==
  LET victims == EvictVictims(meta, num_bytes) IN
  /\ meta' = DeleteAllMeta(meta, victims)
  /\ shm' = UnlinkAll(shm, victims)
  /\ cur' = [cur EXCEPT ![p] = @ - SumSizes(victims)]
  /\ gone' = [i \in Ids |-> IF i \in Range(KeysOf(victims)) THEN "evict" ELSE gone[i]]
  /\ sealedOnce' = sealedOnce \ Range(KeysOf(victims))
  /\ written' = Forget(written, Range(KeysOf(victims)))
  /\ last' = Call("evict", p, NoId, num_bytes, "ok", KeysOf(victims))
  /\ UNCHANGED <<queue, now, used, held>>

\* Store.get_notification(timeout) in a process that does not have to wait:
\* an entry is queued, or the timeout elapses on the empty queue
GetNotification(p) ==
  /\ IF queue # <<>>
     THEN /\ queue' = Tail(queue)
          /\ last' = Call("get_notification", p, Head(queue), 0, "ok", <<>>)
     ELSE /\ queue' = queue
          /\ last' = Call("get_notification", p, NoId, 0, "None", <<>>)
  /\ UNCHANGED <<meta, shm, cur, now, used, held, gone, sealedOnce, written>>

\* Spec: the calls of one process on its Store object, one whole call at a time
Callers == {1}

Next ==
  \E p \in Callers :
    \/ \E size \in Sizes : Create(p, size) /\ UNCHANGED procVars
    \/ \E data \in Payloads : Put(p, data) /\ UNCHANGED procVars
    \/ \E id \in Ids : Seal(p, id) /\ UNCHANGED procVars
    \/ \E id \in Ids : Get(p, id) /\ UNCHANGED procVars
    \/ \E id \in Ids : Contains(p, id) /\ UNCHANGED procVars
    \/ \E id \in Ids : Info(p, id) /\ UNCHANGED procVars
    \/ \E id \in Ids : Delete(p, id) /\ UNCHANGED procVars
    \/ \E id \in Ids : Release(p, id) /\ UNCHANGED procVars
    \/ \E n \in 0..MaxEvict : Evict(p, n) /\ UNCHANGED procVars
    \/ GetNotification(p) /\ UNCHANGED procVars

Spec == Init /\ [][Next]_vars

\* ---------------------------------------------- the handlers, step by step
\* SpecConc: the processes of Procs call the handlers concurrently.  A step is
\* one request to the Manager (a dict, list or Condition proxy call) or one
\* SharedMemory system call, together with the process-local statements that
\* precede it.
Started(p) == pc[p] = "idle" /\ calls < MaxCalls
Begin(p, label, l) ==
  /\ pc' = [pc EXCEPT ![p] = label]
  /\ loc' = [loc EXCEPT ![p] = l]
  /\ calls' = calls + 1
\* a call that raises or returns in its first step
Fail(p, op, id, arg, res) ==
  /\ last' = Call(op, p, id, arg, res, <<>>)
  /\ calls' = calls + 1
  /\ UNCHANGED <<pc, loc>>
Goto(p, label) == pc' = [pc EXCEPT ![p] = label]
\* the call in progress returns or raises
Return(p, res, id, buf) ==
  /\ last' = Call(loc[p].op, p, id, loc[p].arg, res, buf)
  /\ pc' = [pc EXCEPT ![p] = "idle"]
  /\ loc' = [loc EXCEPT ![p] = IdleLoc]

\* create (also as the first statement of put): the capacity check, uuid4 and
\* SharedMemory(create=True, ...)
CreateAlloc(p, op, size, data) ==
  /\ Started(p)
  /\ \E id \in FreshIds :
       LET res == CreateRes(cur[p], size, id, shm) IN
       IF res = "ok"
       THEN /\ shm' = ShmPut(shm, ShmName(id), Zeros(size))
            /\ used' = used \cup {id}
            /\ Begin(p, "create_set",
                     [IdleLoc EXCEPT !.op = op, !.id = id, !.arg = size, !.data = data])
            /\ UNCHANGED <<meta, cur, queue, now, held, gone, sealedOnce, written,
                           last, lock>>
       ELSE /\ Fail(p, op, NoId, size, res)
            /\ UNCHANGED <<storeVars, lock>>

\* create: self.meta[obj_id] = {...}; self._current_size += size; return
CreateSet(p) ==
  /\ pc[p] = "create_set"
  /\ \E t \in {now, now + 1} :
       /\ meta' = MetaSet(meta, loc[p].id, NewRecord(loc[p].id, loc[p].arg, t))
       /\ now' = t
  /\ cur' = [cur EXCEPT ![p] = @ + loc[p].arg]
  /\ IF loc[p].op = "create"
     THEN Return(p, "ok", loc[p].id, <<>>)
     ELSE Goto(p, "put_write") /\ UNCHANGED <<loc, last>>
  /\ UNCHANGED <<shm, queue, used, held, gone, sealedOnce, written, lock, calls>>

\* put: buf[:size] = data_bytes; shm.close().  The buffer is the caller's
\* mapping: the write reaches the segment only while it is still linked.
PutWrite(p) ==
  /\ pc[p] = "put_write"
  /\ LET name == ShmName(loc[p].id) IN
     shm' = IF name \in DOMAIN shm
            THEN ShmPut(shm, name, WriteBuf(shm[name], loc[p].arg, loc[p].data))
            ELSE shm
  /\ written' = ShmPut(written, loc[p].id, loc[p].data)
  /\ Goto(p, "seal_set_read")
  /\ UNCHANGED <<meta, cur, queue, now, used, held, gone, sealedOnce, last,
                 loc, lock, calls>>

\* seal: md = self.meta.get(obj_id); raise ObjectNotFound if None
SealRead(p, id) ==
  /\ Started(p)
  /\ IF ~Has(meta, id)
     THEN Fail(p, "seal", id, 0, "NotFound")
     ELSE /\ Begin(p, "seal_set",
                   [IdleLoc EXCEPT !.op = "seal", !.id = id, !.md = MetaGet(meta, id)])
          /\ UNCHANGED last
  /\ UNCHANGED <<storeVars, lock>>

\* put: the same statement of seal, reached from put
PutSealRead(p) ==
  /\ pc[p] = "seal_set_read"
  /\ IF ~Has(meta, loc[p].id)
     THEN Return(p, "NotFound", loc[p].id, <<>>)
     ELSE /\ Goto(p, "seal_set")
          /\ loc' = [loc EXCEPT ![p].md = MetaGet(meta, loc[p].id)]
          /\ UNCHANGED last
  /\ UNCHANGED <<storeVars, lock, calls>>

\* seal: md["sealed"] = True; self.meta[obj_id] = md
SealSet(p) ==
  /\ pc[p] = "seal_set"
  /\ meta' = MetaSet(meta, loc[p].id, SealRecord(loc[p].md))
  /\ sealedOnce' = sealedOnce \cup {loc[p].id}
  /\ Goto(p, "seal_lock")
  /\ UNCHANGED <<shm, cur, queue, now, used, held, gone, written, last, loc, lock, calls>>

\* seal: "with self._notification_condition:" acquires the lock
SealLock(p) ==
  /\ pc[p] = "seal_lock"
  /\ lock = 0
  /\ Len(queue) < MaxQueue
  /\ lock' = p
  /\ Goto(p, "seal_append")
  /\ UNCHANGED <<storeVars, last, loc, calls>>

\* seal: self._sealed_objects_queue.append(obj_id)
SealAppend(p) ==
  /\ pc[p] = "seal_append"
  /\ queue' = Append(queue, loc[p].id)
  /\ Goto(p, "seal_notify")
  /\ UNCHANGED <<meta, shm, cur, now, used, held, gone, sealedOnce, written, last,
                 loc, lock, calls>>

SealNotify_NoNotify(p) ==
  /\ pc[p] = "seal_notify"
  /\ lock' = 0
  /\ Return(p, "ok", loc[p].id, <<>>)
  /\ UNCHANGED <<storeVars, calls>>

\* seal: self._notification_condition.notify_all(), the end of the with block
\* and the return
SealNotify(p) ==
  /\ pc[p] = "seal_notify"
  /\ lock' = 0
  /\ last' = Call(loc[p].op, p, loc[p].id, loc[p].arg, "ok", <<>>)
  /\ pc' = [q \in Procs |-> IF q = p THEN "idle"
                            ELSE IF pc[q] = "waiting" THEN "wait_wake" ELSE pc[q]]
  /\ loc' = [loc EXCEPT ![p] = IdleLoc]
  /\ UNCHANGED <<storeVars, calls>>

\* get: md = self.meta.get(obj_id) and the two checks
GetRead(p, id) ==
  /\ Started(p)
  /\ IF ~Has(meta, id)
     THEN Fail(p, "get", id, 0, "NotFound")
     ELSE IF ~MetaGet(meta, id).sealed
     THEN Fail(p, "get", id, 0, "NotSealed")
     ELSE /\ MetaGet(meta, id).refcount < MaxRef
          /\ Begin(p, "get_attach",
                   [IdleLoc EXCEPT !.op = "get", !.id = id, !.md = MetaGet(meta, id)])
          /\ UNCHANGED last
  /\ UNCHANGED <<storeVars, lock>>

\* get: shm = SharedMemory(name=md["shm_name"])
GetAttach(p) ==
  /\ pc[p] = "get_attach"
  /\ IF loc[p].md.shm_name \in DOMAIN shm
     THEN /\ Goto(p, "get_set")
          /\ loc' = [loc EXCEPT ![p].data = shm[loc[p].md.shm_name]]
          /\ UNCHANGED last
     ELSE Return(p, "FileNotFoundError", loc[p].id, <<>>)
  /\ UNCHANGED <<storeVars, lock, calls>>

\* get: md["refcount"] += 1; self.meta[obj_id] = md; return shm, md["size"]
GetSet(p) ==
  /\ pc[p] = "get_set"
  /\ meta' = MetaSet(meta, loc[p].id, BumpRecord(loc[p].md))
  /\ held' = [held EXCEPT ![loc[p].id] = @ + 1]
  /\ last' = Call("get", p, loc[p].id, loc[p].md.size, "ok", loc[p].data)
  /\ pc' = [pc EXCEPT ![p] = "idle"]
  /\ loc' = [loc EXCEPT ![p] = IdleLoc]
  /\ UNCHANGED <<shm, cur, queue, now, used, gone, sealedOnce, written, lock, calls>>

\* delete: md = self.meta.get(obj_id); raise ObjectNotFound if None
DeleteRead(p, id) ==
  /\ Started(p)
  /\ IF ~Has(meta, id)
     THEN Fail(p, "delete", id, 0, "NotFound")
     ELSE /\ Begin(p, "delete_unlink",
                   [IdleLoc EXCEPT !.op = "delete", !.id = id, !.md = MetaGet(meta, id)])
          /\ UNCHANGED last
  /\ UNCHANGED <<storeVars, lock>>

\* delete: the unlink of the segment and self._current_size -= md["size"]
DeleteUnlink(p) ==
  /\ pc[p] = "delete_unlink"
  /\ shm' = Unlink(shm, loc[p].md.shm_name)
  /\ cur' = [cur EXCEPT ![p] = @ - loc[p].md.size]
  /\ Goto(p, "delete_del")
  /\ UNCHANGED <<meta, queue, now, used, held, gone, sealedOnce, written, last, loc,
                 lock, calls>>

\* delete: del self.meta[obj_id], a KeyError when the key is gone; inside evict
\* the loop goes on with bytes_freed += md["size"]
DeleteDel(p) ==
  /\ pc[p] = "delete_del"
  /\ IF ~Has(meta, loc[p].id)
     THEN /\ Return(p, "KeyError", loc[p].id, <<>>)
          /\ UNCHANGED storeVars
     ELSE /\ meta' = MetaDel(meta, loc[p].id)
          /\ gone' = [gone EXCEPT ![loc[p].id] = loc[p].op]
          /\ sealedOnce' = sealedOnce \ {loc[p].id}
          /\ written' = Forget(written, {loc[p].id})
          /\ IF loc[p].op = "evict"
             THEN /\ Goto(p, "evict_loop")
                  /\ loc' = [loc EXCEPT
                       ![p].freed = @ + Head(loc[p].items).md.size,
                       ![p].items = Tail(@),
                       ![p].data = Append(@, loc[p].id)]
                  /\ UNCHANGED last
             ELSE Return(p, "ok", loc[p].id, <<>>)
          /\ UNCHANGED <<shm, cur, queue, now, used, held>>
  /\ UNCHANGED <<lock, calls>>

\* release: md = self.meta.get(obj_id); md["refcount"] -= 1
ReleaseRead(p, id) ==
  /\ Started(p)
  /\ IF ~Has(meta, id)
     THEN Fail(p, "release", id, 0, "NotFound")
     ELSE /\ Begin(p, IF ReleasedToZero(DropRecord(MetaGet(meta, id)))
                      THEN "release_unlink" ELSE "release_set",
                   [IdleLoc EXCEPT !.op = "release", !.id = id,
                                   !.md = DropRecord(MetaGet(meta, id))])
          /\ UNCHANGED last
  /\ UNCHANGED <<storeVars, lock>>

\* release, refcount <= 0: the unlink and self._current_size -= md["size"]
ReleaseUnlink(p) ==
  /\ pc[p] = "release_unlink"
  /\ shm' = Unlink(shm, loc[p].md.shm_name)
  /\ cur' = [cur EXCEPT ![p] = @ - loc[p].md.size]
  /\ Goto(p, "release_del")
  /\ UNCHANGED <<meta, queue, now, used, held, gone, sealedOnce, written, last, loc,
                 lock, calls>>

\* release, refcount <= 0: del self.meta[obj_id]
ReleaseDel(p) ==
  /\ pc[p] = "release_del"
  /\ IF ~Has(meta, loc[p].id)
     THEN /\ Return(p, "KeyError", loc[p].id, <<>>)
          /\ UNCHANGED storeVars
     ELSE /\ meta' = MetaDel(meta, loc[p].id)
          /\ gone' = [gone EXCEPT ![loc[p].id] = "release"]
          /\ held' = [held EXCEPT ![loc[p].id] = @ - 1]
          /\ sealedOnce' = sealedOnce \ {loc[p].id}
          /\ written' = Forget(written, {loc[p].id})
          /\ Return(p, "ok", loc[p].id, <<>>)
          /\ UNCHANGED <<shm, cur, queue, now, used>>
  /\ UNCHANGED <<lock, calls>>

\* release, refcount > 0: self.meta[obj_id] = md
ReleaseSet(p) ==
  /\ pc[p] = "release_set"
  /\ meta' = MetaSet(meta, loc[p].id, loc[p].md)
  /\ held' = [held EXCEPT ![loc[p].id] = @ - 1]
  /\ Return(p, "ok", loc[p].id, <<>>)
  /\ UNCHANGED <<shm, cur, queue, now, used, gone, sealedOnce, written, lock, calls>>

\* evict: the scan of self.meta.items() and the sort
EvictScan(p, num_bytes) ==
  /\ Started(p)
  /\ Begin(p, "evict_loop",
           [IdleLoc EXCEPT !.op = "evict", !.arg = num_bytes,
                           !.items = SortByCreatedAt(Candidates(meta))])
  /\ UNCHANGED <<storeVars, last, lock>>

\* evict: the loop test, and the first statement of self.delete(obj_id)
EvictNext(p) ==
  /\ pc[p] = "evict_loop"
  /\ IF loc[p].items = <<>> \/ loc[p].freed >= loc[p].arg
     THEN Return(p, "ok", NoId, loc[p].data)
     ELSE IF ~Has(meta, Head(loc[p].items).key)
     THEN Return(p, "NotFound", Head(loc[p].items).key, loc[p].data)
     ELSE /\ Goto(p, "delete_unlink")
          /\ loc' = [loc EXCEPT ![p].id = Head(loc[p].items).key,
                                ![p].md = MetaGet(meta, Head(loc[p].items).key)]
          /\ UNCHANGED last
  /\ UNCHANGED <<storeVars, lock, calls>>

\* get_notification: "with self._notification_condition:" acquires the lock;
\* arg is 1 for a finite timeout and 0 for timeout=None
WaitLock(p, timeout) ==
  /\ Started(p)
  /\ lock = 0
  /\ lock' = p
  /\ Begin(p, "wait_check", [IdleLoc EXCEPT !.op = "get_notification", !.arg = timeout])
  /\ UNCHANGED <<storeVars, last>>

WaitCheck_PopsLast(p) ==
  /\ pc[p] = "wait_check"
  /\ lock' = 0
  /\ IF queue = <<>>
     THEN /\ Goto(p, "waiting")
          /\ UNCHANGED <<queue, last, loc>>
     ELSE /\ queue' = SubSeq(queue, 1, Len(queue) - 1)
          /\ Return(p, "ok", queue[Len(queue)], <<>>)
  /\ UNCHANGED <<meta, shm, cur, now, used, held, gone, sealedOnce, written, calls>>

\* get_notification: "while not self._sealed_objects_queue": wait on the empty
\* queue (the wait releases the lock), else pop(0), leave the with block, return
WaitCheck(p) ==
  /\ pc[p] = "wait_check"
  /\ lock' = 0
  /\ IF queue = <<>>
     THEN /\ Goto(p, "waiting")
          /\ UNCHANGED <<queue, last, loc>>
     ELSE /\ queue' = Tail(queue)
          /\ Return(p, "ok", Head(queue), <<>>)
  /\ UNCHANGED <<meta, shm, cur, now, used, held, gone, sealedOnce, written, calls>>

\* Condition.wait(timeout): the timeout elapses before a notify
WaitTimeout(p) ==
  /\ pc[p] = "waiting"
  /\ loc[p].arg = 1
  /\ Goto(p, "wait_timedout")
  /\ UNCHANGED <<storeVars, last, loc, lock, calls>>

\* Condition.wait: a notified waiter takes the lock again and tests the queue
WaitWake(p) ==
  /\ pc[p] = "wait_wake"
  /\ lock = 0
  /\ lock' = p
  /\ Goto(p, "wait_check")
  /\ UNCHANGED <<storeVars, last, loc, calls>>

WaitTimedOut_WaitsAgain(p) ==
  /\ pc[p] = "wait_timedout"
  /\ lock = 0
  /\ Goto(p, "waiting")
  /\ UNCHANGED <<storeVars, last, loc, lock, calls>>

\* Condition.wait returns False after taking the lock again: return None
WaitTimedOut(p) ==
  /\ pc[p] = "wait_timedout"
  /\ lock = 0
  /\ Return(p, "None", NoId, <<>>)
  /\ UNCHANGED <<storeVars, lock, calls>>

NextConc ==
  \E p \in Procs :
    \/ \E size \in Sizes : CreateAlloc(p, "create", size, <<>>)
    \/ \E data \in Payloads : CreateAlloc(p, "put", Len(data), data)
    \/ CreateSet(p)
    \/ PutWrite(p)
    \/ PutSealRead(p)
    \/ \E id \in Ids : SealRead(p, id)
    \/ SealSet(p)
    \/ SealLock(p)
    \/ SealAppend(p)
    \/ SealNotify(p)
    \/ \E id \in Ids : GetRead(p, id)
    \/ GetAttach(p)
    \/ GetSet(p)
    \/ \E id \in Ids : DeleteRead(p, id)
    \/ DeleteUnlink(p)
    \/ DeleteDel(p)
    \/ \E id \in Ids : ReleaseRead(p, id)
    \/ ReleaseUnlink(p)
    \/ ReleaseDel(p)
    \/ ReleaseSet(p)
    \/ \E n \in 0..MaxEvict : EvictScan(p, n)
    \/ EvictNext(p)
    \/ \E timeout \in {0, 1} : WaitLock(p, timeout)
    \/ WaitCheck(p)
    \/ WaitTimeout(p)
    \/ WaitWake(p)
    \/ WaitTimedOut(p)

SpecConc == Init /\ [][NextConc]_vars

\* SpecNotify: the notification channel with one consumer.  The processes of
\* Waiters only call get_notification; the others only create, put and seal.
\* A process that can take a step of the call it is in eventually takes it, and
\* the timer of a finite timeout eventually fires (weak fairness per process).
Waiters == {1}
Sealers == Procs \ Waiters

Continue(p) ==
  \/ CreateSet(p) \/ PutWrite(p) \/ PutSealRead(p) \/ SealSet(p) \/ SealLock(p)
  \/ SealAppend(p) \/ SealNotify(p)
  \/ WaitCheck(p) \/ WaitTimeout(p) \/ WaitWake(p) \/ WaitTimedOut(p)

NextNotify ==
  \/ \E p \in Sealers :
       \/ \E size \in Sizes : CreateAlloc(p, "create", size, <<>>)
       \/ \E data \in Payloads : CreateAlloc(p, "put", Len(data), data)
       \/ \E id \in Ids : SealRead(p, id)
  \/ \E p \in Waiters, timeout \in {0, 1} : WaitLock(p, timeout)
  \/ \E p \in Procs : Continue(p)

SpecNotify ==
  Init /\ [][NextNotify]_vars /\ \A p \in Procs : WF_vars(Continue(p))

\* ------------------------------------------------------------- claims
Md(m, id) == MetaGet(m, id)

\* C1: for an identifier created by create or put and not removed by delete or
\* evict, after n successful gets and m successful releases the identifier is
\* present iff 1 + n - m > 0; the release that brings the count to 0 removes
\* the record, unlinks the segment and subtracts its size from the counter.
C1_RefcountExistence ==
  [][ /\ \A id \in used' :
           gone'[id] \notin {"delete", "evict"} =>
             (Has(meta', id) <=> 1 + held'[id] > 0)
      /\ (last'.op = "release" /\ last'.res = "ok" /\ 1 + held'[last'.id] = 0) =>
           /\ ~Has(meta', last'.id)
           /\ Md(meta, last'.id).shm_name \notin DOMAIN shm'
           /\ cur'[last'.p] = cur[last'.p] - Md(meta, last'.id).size ]_vars

\* C1 witness: after one get, a release leaves one identifier present
\* (n = m = 1) while releases have removed another
C1_Witness ==
  /\ last.op = "release" /\ last.res = "ok"
  /\ Has(meta, last.id) /\ held[last.id] = 0
  /\ \E id \in used : gone[id] = "release" /\ ~Has(meta, id) /\ held[id] = -1

\* C2: get on a present, never sealed identifier fails with NotSealed and
\* leaves the table unchanged; on a present identifier on which a seal has
\* succeeded, get succeeds and raises refcount by exactly 1.
C2_GetNeedsSeal ==
  [][ (last'.op = "get" /\ Has(meta, last'.id)) =>
        IF last'.id \in sealedOnce
        THEN /\ last'.res = "ok"
             /\ Has(meta', last'.id)
             /\ Md(meta', last'.id).refcount = Md(meta, last'.id).refcount + 1
        ELSE /\ last'.res = "NotSealed"
             /\ meta' = meta ]_vars

\* C2 witness: a get has succeeded on a sealed identifier
C2_Witness ==
  /\ last.op = "get" /\ last.res = "ok"
  /\ Has(meta, last.id) /\ Md(meta, last.id).refcount = 2

\* C3: in every reachable state the sizes of the records in the table sum to
\* at most the configured capacity.
C3_CapacityBound == SumSizes(meta) <= Capacity

\* C4: create(size) fails with CapacityExceeded (MemoryError) exactly when
\* _current_size + size > capacity, and then adds no record, allocates no
\* segment and leaves the counter unchanged.
C4_CapacityCheck ==
  [][ (last'.op \in {"create", "put"}) =>
        /\ (last'.res = "MemoryError") <=> (cur[last'.p] + last'.arg > Capacity)
        /\ (last'.res = "MemoryError") =>
              (meta' = meta /\ shm' = shm /\ cur' = cur) ]_vars

\* C4 witness: a create has failed with MemoryError on a store that holds objects
C4_Witness ==
  /\ last.op = "create" /\ last.res = "MemoryError"
  /\ meta # <<>> /\ last.arg <= Capacity

\* C5: delete on a present identifier removes it at once, whatever its refcount
\* and whether or not it is sealed; afterwards contains is false and get, info
\* and release fail with NotFound.
C5_DeleteImmediate ==
  [][ /\ (last'.op = "delete" /\ Has(meta, last'.id)) =>
           (last'.res = "ok" /\ ~Has(meta', last'.id))
      /\ (last'.op \in {"get", "info", "release"} /\ gone[last'.id] = "delete") =>
           last'.res = "NotFound"
      /\ (last'.op = "contains" /\ gone[last'.id] = "delete") =>
           last'.res = "false" ]_vars

\* C5 witness: a get fails with NotFound on an identifier deleted while a get
\* reference was outstanding
C5_Witness ==
  /\ last.op = "get" /\ last.res = "NotFound"
  /\ gone[last.id] = "delete" /\ held[last.id] >= 1

\* C6: on an identifier absent from the table, seal, get, release, delete and
\* info fail with NotFound and leave the table, the counter and the
\* notification queue unchanged.
C6_AbsentNotFound ==
  [][ (last'.op \in {"seal", "get", "release", "delete", "info"}
         /\ ~Has(meta, last'.id)) =>
        /\ last'.res = "NotFound"
        /\ meta' = meta /\ cur' = cur /\ queue' = queue ]_vars

\* C6 witness: a seal fails with NotFound on an identifier that was removed
C6_Witness ==
  /\ last.op = "seal" /\ last.res = "NotFound"
  /\ gone[last.id] # "none" /\ meta # <<>>

\* C7: put(b) leaves a record with size = len(b), sealed = true, refcount = 1;
\* a get of that identifier returns a buffer whose first size bytes equal b; a
\* release right after the put removes the identifier.
C7_PutRoundTrip ==
  [][ /\ (last'.op = "put" /\ last'.res = "ok") =>
           /\ Has(meta', last'.id)
           /\ Md(meta', last'.id).size = Len(written'[last'.id])
           /\ Md(meta', last'.id).sealed
           /\ Md(meta', last'.id).refcount = 1
      /\ (last'.op = "get" /\ last'.res = "ok" /\ last'.id \in DOMAIN written) =>
           /\ last'.arg = Len(written[last'.id])
           /\ SubSeq(last'.buf, 1, last'.arg) = written[last'.id]
      /\ (last.op = "put" /\ last.res = "ok"
            /\ last'.op = "release" /\ last'.id = last.id) =>
           ~Has(meta', last'.id) ]_vars

\* C7 witness: a get has returned the two distinct bytes a put wrote
C7_Witness ==
  /\ last.op = "get" /\ last.res = "ok"
  /\ last.id \in DOMAIN written
  /\ written[last.id] = <<1, 0>>

\* the records of table m that are sealed and hold only the store's reference
SealedUnreferenced(m) ==
  {i \in DOMAIN m : m[i].md.sealed /\ m[i].md.refcount = 1}
RECURSIVE SizeOfIds(_, _)
SizeOfIds(m, ids) ==
  IF ids = <<>> THEN 0 ELSE Md(m, Head(ids)).size + SizeOfIds(m, Tail(ids))

C9_EvictOnlyUnreferenced ==
  [][ \A p \in Procs :
        (pc[p] = "delete_del" /\ loc[p].op = "evict"
           /\ Has(meta, loc[p].id) /\ ~Has(meta', loc[p].id)) =>
          (Md(meta, loc[p].id).sealed /\ Md(meta, loc[p].id).refcount = 1) ]_vars

\* C10: a successful seal wakes every process blocked in get_notification, and
\* a single consumer that was blocked on the empty queue (with no timeout, or
\* woken before its timeout) returns the identifier that seal queued.
C10_SealWakesWaiter ==
  /\ [][ \A p \in Procs :
           (pc[p] = "seal_notify" /\ pc'[p] = "idle") =>
             \A q \in Procs : pc[q] = "waiting" => pc'[q] = "wait_wake" ]_vars
  /\ \A q \in Waiters, id \in Ids :
       ( /\ pc[q] = "wait_wake" \/ (pc[q] = "waiting" /\ loc[q].arg = 0)
         /\ queue # <<>> /\ Head(queue) = id )
       ~> (last.op = "get_notification" /\ last.p = q /\ last.res = "ok" /\ last.id = id)

\* C10 witness: a put has just completed and woken the waiting consumer, whose
\* queue now starts with the identifier put sealed
C10_Witness ==
  \E q \in Waiters :
    /\ pc[q] = "wait_wake"
    /\ last.op = "put" /\ last.res = "ok"
    /\ queue = <<last.id>>

\* a step in which process p returns from the call named op
Returns(p, op) == pc[p] # "idle" /\ pc'[p] = "idle" /\ loc[p].op = op

\* C11: the notification queue is a FIFO work queue under any interleaving of
\* sealers and waiters: the queue changes only by a seal appending its
\* identifier at the tail while it holds the lock, or by one get_notification
\* call removing the head and returning it; a get_notification call that
\* returns an identifier returns the head and removes it, so no entry is
\* returned to two calls and entries leave in the order they were appended.
C11_FifoWorkQueue ==
  [][ /\ queue' # queue =>
           \/ \E p \in Procs :
                /\ pc[p] = "seal_append" /\ lock = p
                /\ queue' = Append(queue, loc[p].id)
           \/ \E p \in Procs :
                /\ Returns(p, "get_notification") /\ lock = p
                /\ queue # <<>> /\ queue' = Tail(queue)
                /\ last'.p = p /\ last'.res = "ok" /\ last'.id = Head(queue)
      /\ \A p \in Procs :
           Returns(p, "get_notification") =>
             /\ last'.op = "get_notification" /\ last'.p = p
             /\ IF last'.res = "ok"
                THEN queue # <<>> /\ last'.id = Head(queue) /\ queue' = Tail(queue)
                ELSE last'.res = "None" /\ queue' = queue ]_vars

\* C11 witness: two objects were sealed before any waiter drained the queue;
\* a waiter has received the older one and the newer one is still queued
C11_Witness ==
  /\ last.op = "get_notification" /\ last.res = "ok"
  /\ queue # <<>> /\ last.id < Head(queue)

\* C12: a get_notification call made with a finite timeout eventually returns
\* to its caller, with the identifier it popped or with None, whether or not a
\* seal ever occurs.
C12_FiniteWaitReturns ==
  \A q \in Procs :
    (pc[q] # "idle" /\ loc[q].op = "get_notification" /\ loc[q].arg = 1)
      ~> ( /\ pc[q] = "idle"
           /\ last.op = "get_notification" /\ last.p = q /\ last.arg = 1
           /\ last.res \in {"ok", "None"} )

\* C12 witness: a call with a finite timeout has returned None on a store in
\* which nothing was ever sealed
C12_Witness ==
  /\ last.op = "get_notification" /\ last.arg = 1 /\ last.res = "None"
  /\ queue = <<>> /\ sealedOnce = {}
  /\ \A p \in Procs : pc[p] \notin {"seal_lock", "seal_append", "seal_notify"}

\* C13: put is atomic for every observer: a get by another process never
\* finds the identifier of a put in progress present but unsealed (it is
\* absent, or present with sealed = true).
C13_PutAtomic ==
  [][ (calls' = calls + 1 /\ last'.op = "get" /\ last'.res = "NotSealed") =>
        ~ \E p \in Procs : loc[p].op = "put" /\ loc[p].id = last'.id ]_vars

\* C14: sealed is monotonic and size is fixed: in every step, under any
\* interleaving of the calls, a record that stays in the table and is sealed
\* stays sealed, and a record that stays in the table keeps its size.
C14_SealedMonotonic ==
  [][ \A id \in Ids :
        (Has(meta, id) /\ Has(meta', id)) =>
          /\ Md(meta, id).sealed => Md(meta', id).sealed
          /\ Md(meta', id).size = Md(meta, id).size ]_vars

\* C14 witness: a release has written back the record of a sealed identifier
\* that a get had referenced, and the record is still sealed
C14_Witness ==
  /\ last.op = "release" /\ last.res = "ok"
  /\ Has(meta, last.id)
  /\ Md(meta, last.id).sealed /\ Md(meta, last.id).refcount = 1

\* C15: a successful seal leaves the record sealed with its size and refcount
\* unchanged and appends exactly one entry for the identifier to the
\* notification queue; on an already sealed identifier it leaves the whole
\* table unchanged and still appends one entry.
C15_SealIdempotent ==
  [][ (last'.op = "seal" /\ last'.res = "ok") =>
        /\ Has(meta, last'.id) /\ Has(meta', last'.id)
        /\ Md(meta', last'.id) = [Md(meta, last'.id) EXCEPT !.sealed = TRUE]
        /\ Md(meta, last'.id).sealed => meta' = meta
        /\ Keys(meta') = Keys(meta)
        /\ queue' = Append(queue, last'.id) ]_vars

\* C15 witness: a second seal of an identifier has succeeded and the queue
\* holds one entry per seal
C15_Witness ==
  /\ last.op = "seal" /\ last.res = "ok"
  /\ Len(queue) = 2 /\ queue[1] = last.id /\ queue[2] = last.id
  /\ Md(meta, last.id).sealed

\* C16: no refcount update is lost: for every identifier in the table that was
\* never removed, the stored refcount equals 1 + (completed successful gets)
\* - (completed successful releases), also when the processes run get,
\* release and seal on it concurrently.
C16_NoLostUpdate ==
  \A id \in Ids :
    (Has(meta, id) /\ gone[id] = "none") => Md(meta, id).refcount = 1 + held[id]

\* C17: removal is final: once the record of an identifier has been removed
\* (by the release that reaches 0, by delete or by evict), no step of any
\* call, started before or after the removal, puts that identifier back into
\* the table.
C17_RemovalFinal ==
  [][ \A id \in Ids :
        (gone[id] # "none" /\ ~Has(meta, id)) => ~Has(meta', id) ]_vars

\* C18: in every state in which no call is in progress, an identifier is in
\* the table if and only if its backing segment is live.
C18_PresentIffSegment ==
  (\A p \in Procs : pc[p] = "idle") =>
    \A id \in Ids : Has(meta, id) <=> ShmName(id) \in DOMAIN shm

\* C19: whenever no call is in progress, the counter _current_size that the
\* create of each process checks equals the sum of the sizes of the records
\* in the table and is not negative.
C19_CounterMatchesTable ==
  (\A p \in Procs : pc[p] = "idle") =>
    \A p \in Procs : cur[p] = SumSizes(meta) /\ cur[p] >= 0

\* C20: in every reachable state, under any interleaving of the calls, every
\* record in the table has refcount >= 1, and an unsealed record has refcount
\* exactly 1.
C20_RefcountPositive ==
  \A i \in DOMAIN meta :
    /\ meta[i].md.refcount >= 1
    /\ ~meta[i].md.sealed => meta[i].md.refcount = 1

\* C20 witness: a stale write-back has overwritten the increment of a completed
\* get, and the record in the table still has refcount 1
C20_Witness ==
  \E id \in Ids :
    /\ Has(meta, id) /\ gone[id] = "none"
    /\ held[id] = 1 /\ Md(meta, id).refcount = 1

====
